---- MODULE Spec2Model ----
(***************************************************************************)
(* The Sidekick worker/evaluator loop (sidekick-app/sidekick.py) and the   *)
(* Gradio handlers that drive it (sidekick-app/app.py).                    *)
(*                                                                         *)
(* Texts (message contents, criteria, feedback, prompts) are sequences of  *)
(* tokens, so that f-string interpolation is concatenation and "contains   *)
(* verbatim" is a sub-sequence test.  An Optional value is a sequence of   *)
(* length 0 (None) or 1.                                                   *)
(***************************************************************************)
EXTENDS Naturals, Sequences, FiniteSets, TLC

\* ------------------------------------------------------------------ bounds
MaxMessages   == 7      \* messages appended to threads per browser session
MaxToolCalls  == 2      \* tool calls carried by one worker reply
MaxResets     == 1      \* clicks on the Reset button per browser session
MaxPending    == 2      \* process_message events waiting in the queue
MaxPairMessages == 3    \* messages appended by two browser sessions together

\* ------------------------------------------------------------ input sets
Slots          == {"a", "b"}          \* browser sessions (one gr.State each)
Active         == {"a"}               \* the browser sessions that act in Spec
UserMessages   == {<<"u1">>}
CriteriaInputs == {<<>>, <<"c1">>}    \* the criteria textbox, possibly empty
Replies        == {<<"a1">>}          \* worker LLM content of a final reply
Feedbacks      == {<<"f1">>, <<"f2">>}
ToolFailure    == <<"Error: tool failed">>   \* ToolNode's text for a raised error
ToolOutputs    == {<<"ok">>, ToolFailure}

None    == <<>>
Some(x) == <<x>>

\* --------------------------------------------------------------- messages
SystemMessage(c)  == [type |-> "system", content |-> c]
HumanMessage(c)   == [type |-> "human", content |-> c]
AIMessage(c, tcs) == [type |-> "ai", content |-> c, tool_calls |-> tcs]
ToolMessage(c, i) == [type |-> "tool", content |-> c, tool_call_id |-> i]

\* the role the message has in the conversation (spec section 3)
Role(m) ==
    CASE m.type = "system" -> "system"
      [] m.type = "human"  -> "user"
      [] m.type = "ai"     -> "assistant"
      [] m.type = "tool"   -> "tool"

Last(seq) == seq[Len(seq)]

IsPrefix(p, q) == Len(p) <= Len(q) /\ SubSeq(q, 1, Len(p)) = p

\* text t occurs verbatim (contiguously) in text u
Contains(u, t) ==
    \E i \in 0..(Len(u) - Len(t)) : SubSeq(u, i + 1, i + Len(t)) = t

\* add_messages: the reducer of the messages channel.  A dict with a role is
\* coerced to the message class of that role; every incoming message gets a
\* fresh id, so none replaces a stored one and all are appended in order.
convert_to_message(x) ==
    IF "type" \in DOMAIN x THEN x
    ELSE IF x.role = "assistant" THEN AIMessage(x.content, <<>>)
    ELSE IF x.role = "system" THEN SystemMessage(x.content)
    ELSE HumanMessage(x.content)

add_messages_drop(left, right) ==
    [i \in 1..Len(right) |-> convert_to_message(right[i])]

add_messages(left, right) ==
    left \o [i \in 1..Len(right) |-> convert_to_message(right[i])]

\* ------------------------------------------------------------------ State
\* class State: the channels of the graph.  A fresh thread has no messages.
EmptyState ==
    [messages |-> <<>>, success_criteria |-> <<>>, feedback_on_work |-> None,
     success_criteria_met |-> FALSE, user_input_needed |-> FALSE]

\* StateGraph(State): a node's (or the input's) partial update is merged into
\* the channels; messages goes through its reducer, other keys are overwritten.
ApplyWrites(state, update) ==
    [k \in DOMAIN state |->
        IF k \in DOMAIN update
        THEN IF k = "messages" THEN add_messages(state[k], update[k])
             ELSE update[k]
        ELSE state[k]]

\* ----------------------------------------------------------------- worker
DefaultCriteria == <<"The answer should be clear and accurate">>

\* Python truthiness of an Optional[str]
Truthy(opt) == opt # None /\ opt[1] # <<>>

\* the f-string built at the top of worker()
system_message_no_feedback(state) ==
    <<"You are a helpful assistant that can use tools to complete tasks.",
      "The current date and time is", "now",
      "This is the success criteria:">>
    \o state.success_criteria
    \o <<"You should reply either with a question for the user about this assignment, or with your final response.">>

system_message(state) ==
    <<"You are a helpful assistant that can use tools to complete tasks.",
      "The current date and time is", "now",
      "This is the success criteria:">>
    \o state.success_criteria
    \o <<"You should reply either with a question for the user about this assignment, or with your final response.">>
    \o (IF Truthy(state.feedback_on_work)
        THEN <<"Here is the feedback on why this was rejected:">>
             \o state.feedback_on_work[1]
             \o <<"With this feedback, please continue the assignment">>
        ELSE <<>>)

\* the loop over state["messages"]: every SystemMessage object found has its
\* content overwritten in place (the objects are the ones held by the state)
worker_in_place(state) ==
    [i \in 1..Len(state.messages) |->
        IF state.messages[i].type = "system"
        THEN [state.messages[i] EXCEPT !.content = system_message(state)]
        ELSE state.messages[i]]

found_system_message(state) ==
    \E i \in 1..Len(state.messages) : state.messages[i].type = "system"

\* the list handed to worker_llm_with_tools.invoke
worker_llm_messages_noprepend(state) == worker_in_place(state)

worker_llm_messages(state) ==
    IF found_system_message(state)
    THEN worker_in_place(state)
    ELSE <<SystemMessage(system_message(state))>> \o worker_in_place(state)

\* what worker() returns for the LLM's response
worker_store_prompt(state, response) ==
    [messages |-> <<SystemMessage(system_message(state)), response>>]

worker_clear_feedback(state, response) ==
    [messages |-> <<response>>, feedback_on_work |-> None]

worker(state, response) == [messages |-> <<response>>]

\* the replies the tool-bound LLM may give as message number n of the thread:
\* a final reply, or 1..MaxToolCalls tool calls (whose ids are its own) and
\* no text
ToolCalls(n, k) == [j \in 1..k |-> [name |-> "search", id |-> <<n, j>>]]

LLMResponses(n) ==
    {AIMessage(c, <<>>) : c \in Replies}
    \cup {AIMessage(<<>>, ToolCalls(n, k)) : k \in 1..MaxToolCalls}

\* ----------------------------------------------------------------- routers
worker_router_hasattr(state) ==
    IF "tool_calls" \in DOMAIN Last(state.messages) THEN "tools" ELSE "evaluator"

worker_router_evaluator(state) == "evaluator"

worker_router(state) ==
    IF "tool_calls" \in DOMAIN Last(state.messages)
       /\ Last(state.messages).tool_calls # <<>>
    THEN "tools"
    ELSE "evaluator"

route_only_success(state) ==
    IF state.success_criteria_met THEN "END" ELSE "worker"

route_only_user_input(state) ==
    IF state.user_input_needed THEN "END" ELSE "worker"

route_based_on_evaluation(state) ==
    IF state.success_criteria_met \/ state.user_input_needed
    THEN "END"
    ELSE "worker"

\* ------------------------------------------------------------------ tools
\* ToolNode: one ToolMessage per tool call of the last message, in call order,
\* carrying the call's id; outs[j] is what call j produced
tools_orphan_id(state, outs) ==
    [messages |->
        [j \in 1..Len(Last(state.messages).tool_calls) |->
            ToolMessage(outs[j], <<0, j>>)]]

tools(state, outs) ==
    [messages |->
        [j \in 1..Len(Last(state.messages).tool_calls) |->
            ToolMessage(outs[j], Last(state.messages).tool_calls[j].id)]]

\* -------------------------------------------------------------- evaluator
\* class EvaluatorOutput
EvaluatorOutputs ==
    [feedback : Feedbacks, success_criteria_met : BOOLEAN,
     user_input_needed : BOOLEAN]

EvaluatorPrefix == <<"Evaluator Feedback on this answer: ">>

\* format_conversation: user and assistant turns only; an assistant turn
\* without text is shown as "[Tools use]"
RECURSIVE format_from(_, _)
format_from(messages, i) ==
    IF i > Len(messages) THEN <<>>
    ELSE (IF messages[i].type = "human"
          THEN <<"User: ">> \o messages[i].content
          ELSE IF messages[i].type = "ai"
          THEN <<"Assistant: ">>
               \o (IF messages[i].content # <<>> THEN messages[i].content
                   ELSE <<"[Tools use]">>)
          ELSE <<>>)
         \o format_from(messages, i + 1)

format_conversation(messages) ==
    <<"Conversation history:">> \o format_from(messages, 1)

\* last_response = state["messages"][-1].content: the text the evaluator is
\* asked to assess
last_response(state) == Last(state.messages).content

\* new_state returned by evaluator() for the structured result r
evaluator_drop_flag(state, r) ==
    [messages |-> <<[role |-> "assistant",
                     content |-> EvaluatorPrefix \o r.feedback]>>,
     feedback_on_work |-> Some(r.feedback),
     user_input_needed |-> r.user_input_needed]

evaluator_feedback_on_rejection(state, r) ==
    [messages |-> <<[role |-> "assistant",
                     content |-> EvaluatorPrefix \o r.feedback]>>,
     feedback_on_work |->
        IF r.success_criteria_met \/ r.user_input_needed
        THEN state.feedback_on_work ELSE Some(r.feedback),
     success_criteria_met |-> r.success_criteria_met,
     user_input_needed |-> r.user_input_needed]

evaluator(state, r) ==
    [messages |-> <<[role |-> "assistant",
                     content |-> EvaluatorPrefix \o r.feedback]>>,
     feedback_on_work |-> Some(r.feedback),
     success_criteria_met |-> r.success_criteria_met,
     user_input_needed |-> r.user_input_needed]

\* ---------------------------------------------------------- run_superstep
\* the input dict of graph.ainvoke; the message string becomes a user turn
superstep_input_keep_feedback(message, success_criteria) ==
    [messages |-> <<[role |-> "user", content |-> message]>>,
     success_criteria |->
        IF success_criteria # <<>> THEN success_criteria ELSE DefaultCriteria,
     success_criteria_met |-> FALSE,
     user_input_needed |-> FALSE]

superstep_input_keep_flags(message, success_criteria) ==
    [messages |-> <<[role |-> "user", content |-> message]>>,
     success_criteria |->
        IF success_criteria # <<>> THEN success_criteria ELSE DefaultCriteria,
     feedback_on_work |-> None]

superstep_input(message, success_criteria) ==
    [messages |-> <<[role |-> "user", content |-> message]>>,
     success_criteria |->
        IF success_criteria # <<>> THEN success_criteria ELSE DefaultCriteria,
     feedback_on_work |-> None,
     success_criteria_met |-> FALSE,
     user_input_needed |-> FALSE]

\* history + [user, reply, feedback]
superstep_result_two(message, result, history) ==
    history
    \o <<[role |-> "assistant",
          content |-> result.messages[Len(result.messages) - 1].content],
         [role |-> "assistant", content |-> Last(result.messages).content]>>

superstep_result(message, result, history) ==
    history
    \o <<[role |-> "user", content |-> message],
         [role |-> "assistant",
          content |-> result.messages[Len(result.messages) - 1].content],
         [role |-> "assistant", content |-> Last(result.messages).content]>>

\* ------------------------------------------------------------- checkpoints
\* config = {"configurable": {"thread_id": self.sidekick_id}}
thread_id(sk) == sk

\* MemorySaver of Sidekick sk: the state stored for its thread, if any
Persisted(mem, sk) ==
    IF thread_id(sk) \in DOMAIN mem[sk] THEN Some(mem[sk][thread_id(sk)]) ELSE None

\* the channels a run starts from: the thread's checkpoint, or empty channels
Load_empty(mem, sk) == EmptyState

Load(mem, sk) ==
    IF Persisted(mem, sk) # None THEN Persisted(mem, sk)[1] ELSE EmptyState

\* compile(checkpointer=self.memory): the channels are saved after the input
\* is applied and after every node
checkpoint_put_shared(mem, sk, state) ==
    [k \in DOMAIN mem |-> (thread_id(k) :> state)]

checkpoint_put(mem, sk, state) ==
    [mem EXCEPT ![sk] = (thread_id(sk) :> state) @@ @]

\* ------------------------------------------------------------------ state
VARIABLES
    sidekick,     \* per browser session: the Sidekick held in gr.State (its uuid)
    next_uuid,    \* uuid.uuid4(): a value never returned before
    memory,       \* per Sidekick: its MemorySaver, thread id -> State
    chatbot,      \* per browser session: the visible history of the Chatbot
    pc,           \* per browser session: where its process_message event stands
    run_sk,       \* the Sidekick the running event was called with
    args,         \* message, success_criteria, history of the running event
    chan,         \* the channels of the running graph invocation
    npass,        \* worker passes of the running invocation
    llm_input,    \* the messages the worker last handed to its LLM
    eval_result,  \* the structured result the evaluator last received
    pre,          \* what was persisted when the running event began
    nmsg,         \* messages appended to threads, per browser session
    nresets,      \* resets done, per browser session
    pending,      \* per browser session: process_message events sent by the
                  \* interface and not started yet, with their input values
    nrej,         \* evaluator passes of the running invocation that rejected
    last_rejection, \* the feedback of the last evaluator pass that rejected,
                  \* on the thread of run_sk
    alive,        \* per browser session: its gr.State has not been deleted
    browser,      \* per Sidekick: its browser handle, "open" or "closed"
    playwright    \* per Sidekick: its playwright handle, "open" or "closed"

resources == <<alive, browser, playwright>>

vars ==
    <<sidekick, next_uuid, memory, chatbot, pc, run_sk, args, chan, npass,
      llm_input, eval_result, pre, nmsg, nresets, pending, nrej,
      last_rejection, alive, browser, playwright>>

\* ui.load(setup): every browser session starts with its own Sidekick
InitialSidekick == [s \in Slots |-> IF s = "a" THEN 1 ELSE 2]

Init ==
    /\ sidekick = InitialSidekick
    /\ next_uuid = 3
    /\ memory = [sk \in {1, 2} |-> <<>>]
    /\ chatbot = [s \in Slots |-> <<>>]
    /\ pc = [s \in Slots |-> "idle"]
    /\ run_sk = InitialSidekick
    /\ args = [s \in Slots |->
                [message |-> <<>>, success_criteria |-> <<>>, history |-> <<>>]]
    /\ chan = [s \in Slots |-> EmptyState]
    /\ npass = [s \in Slots |-> 0]
    /\ llm_input = [s \in Slots |-> <<>>]
    /\ eval_result = [s \in Slots |-> None]
    /\ pre = [s \in Slots |-> None]
    /\ nmsg = [s \in Slots |-> 0]
    /\ nresets = [s \in Slots |-> 0]
    /\ pending = [s \in Slots |-> <<>>]
    /\ nrej = [s \in Slots |-> 0]
    /\ last_rejection = [s \in Slots |-> None]
    /\ alive = [s \in Slots |-> TRUE]
    /\ browser = [sk \in {1, 2} |-> "open"]
    /\ playwright = [sk \in {1, 2} |-> "open"]

\* ---------------------------------------------------------------- actions
\* run_superstep up to the first node, for the input values of one event: the
\* input is merged into the thread's channels and START hands over to the
\* worker
StartRun(s, message, success_criteria, history) ==
    /\ nmsg[s] < MaxMessages
    /\ LET sk == sidekick[s]
           st == ApplyWrites(Load(memory, sk),
                             superstep_input(message, success_criteria))
       IN /\ args' = [args EXCEPT ![s] =
                       [message |-> message,
                        success_criteria |-> success_criteria,
                        history |-> history]]
          /\ run_sk' = [run_sk EXCEPT ![s] = sk]
          /\ pre' = [pre EXCEPT ![s] = Persisted(memory, sk)]
          /\ chan' = [chan EXCEPT ![s] = st]
          /\ memory' = checkpoint_put(memory, sk, st)
    /\ pc' = [pc EXCEPT ![s] = "worker"]
    /\ npass' = [npass EXCEPT ![s] = 0]
    /\ nrej' = [nrej EXCEPT ![s] = 0]
    /\ last_rejection' = [last_rejection EXCEPT ![s] =
                            IF sidekick[s] = run_sk[s] THEN @ ELSE None]
    /\ nmsg' = [nmsg EXCEPT ![s] = @ + 1]
    /\ UNCHANGED <<resources, sidekick, next_uuid, chatbot, llm_input,
                   eval_result, nresets>>

\* process_message for an event sent while no other is queued or running: it
\* starts at once, with the values the interface shows
Begin(s) ==
    /\ pc[s] \in {"idle", "failed"}
    /\ pending[s] = <<>>
    /\ \E message \in UserMessages, success_criteria \in CriteriaInputs :
        StartRun(s, message, success_criteria, chatbot[s])
    /\ UNCHANGED pending

\* the worker node and the conditional edge that follows it
Worker(s) ==
    /\ pc[s] = "worker"
    /\ nmsg[s] < MaxMessages
    /\ \E response \in LLMResponses(Len(chan[s].messages) + 1) :
        LET seen == [chan[s] EXCEPT !.messages = worker_in_place(chan[s])]
            st == ApplyWrites(seen, worker(chan[s], response))
        IN /\ llm_input' = [llm_input EXCEPT ![s] = worker_llm_messages(chan[s])]
           /\ chan' = [chan EXCEPT ![s] = st]
           /\ memory' = checkpoint_put(memory, run_sk[s], st)
           /\ pc' = [pc EXCEPT ![s] = worker_router(st)]
    /\ npass' = [npass EXCEPT ![s] = @ + 1]
    /\ nmsg' = [nmsg EXCEPT ![s] = @ + 1]
    /\ UNCHANGED <<resources, pending, nrej, last_rejection, sidekick, next_uuid, chatbot, run_sk, args, eval_result, pre,
                   nresets>>

\* worker_llm_with_tools.invoke raises: the node writes nothing, ainvoke and
\* run_superstep raise, the event ends without an output for the Chatbot
WorkerFail_rollback(s) ==
    /\ pc[s] = "worker"
    /\ pc' = [pc EXCEPT ![s] = "failed"]
    /\ memory' = [memory EXCEPT ![run_sk[s]] =
                    IF pre[s] = None THEN <<>>
                    ELSE (thread_id(run_sk[s]) :> pre[s][1])]
    /\ UNCHANGED <<resources, pending, nrej, last_rejection, sidekick, next_uuid, chatbot, run_sk, args, chan, npass,
                   llm_input, eval_result, pre, nmsg, nresets>>

WorkerFail(s) ==
    /\ pc[s] = "worker"
    /\ pc' = [pc EXCEPT ![s] = "failed"]
    /\ UNCHANGED <<resources, pending, nrej, last_rejection, sidekick, next_uuid, memory, chatbot, run_sk, args, chan,
                   npass, llm_input, eval_result, pre, nmsg, nresets>>

\* the tools node and its edge back to the worker
Tools_abort(s) ==
    /\ pc[s] = "tools"
    /\ nmsg[s] + Len(Last(chan[s].messages).tool_calls) <= MaxMessages
    /\ \E outs \in [1..Len(Last(chan[s].messages).tool_calls) -> ToolOutputs] :
        LET st == ApplyWrites(chan[s], tools(chan[s], outs))
            raised == \E j \in DOMAIN outs : outs[j] = ToolFailure
        IN /\ chan' = [chan EXCEPT ![s] = IF raised THEN chan[s] ELSE st]
           /\ memory' = IF raised THEN memory
                         ELSE checkpoint_put(memory, run_sk[s], st)
           /\ pc' = [pc EXCEPT ![s] = IF raised THEN "failed" ELSE "worker"]
           /\ nmsg' = [nmsg EXCEPT ![s] =
                        IF raised THEN @ ELSE @ + Len(outs)]
    /\ UNCHANGED <<resources, pending, nrej, last_rejection, sidekick, next_uuid, chatbot, run_sk, args, npass, llm_input,
                   eval_result, pre, nresets>>

Tools(s) ==
    /\ pc[s] = "tools"
    /\ nmsg[s] + Len(Last(chan[s].messages).tool_calls) <= MaxMessages
    /\ \E outs \in [1..Len(Last(chan[s].messages).tool_calls) -> ToolOutputs] :
        LET st == ApplyWrites(chan[s], tools(chan[s], outs))
        IN /\ chan' = [chan EXCEPT ![s] = st]
           /\ memory' = checkpoint_put(memory, run_sk[s], st)
    /\ pc' = [pc EXCEPT ![s] = "worker"]
    /\ nmsg' = [nmsg EXCEPT ![s] = @ + Len(Last(chan[s].messages).tool_calls)]
    /\ UNCHANGED <<resources, pending, nrej, last_rejection, sidekick, next_uuid, chatbot, run_sk, args, npass, llm_input,
                   eval_result, pre, nresets>>

\* the evaluator node and the conditional edge that follows it
Evaluator(s) ==
    /\ pc[s] = "evaluator"
    /\ nmsg[s] < MaxMessages
    /\ \E r \in EvaluatorOutputs :
        LET st == ApplyWrites(chan[s], evaluator(chan[s], r))
        IN /\ eval_result' = [eval_result EXCEPT ![s] = Some(r)]
           /\ chan' = [chan EXCEPT ![s] = st]
           /\ memory' = checkpoint_put(memory, run_sk[s], st)
           /\ pc' = [pc EXCEPT ![s] = route_based_on_evaluation(st)]
           /\ nrej' = [nrej EXCEPT ![s] =
                        IF r.success_criteria_met \/ r.user_input_needed
                        THEN @ ELSE @ + 1]
           /\ last_rejection' = [last_rejection EXCEPT ![s] =
                        IF r.success_criteria_met \/ r.user_input_needed
                        THEN @ ELSE Some(r.feedback)]
    /\ nmsg' = [nmsg EXCEPT ![s] = @ + 1]
    /\ UNCHANGED <<resources, pending, sidekick, next_uuid, chatbot, run_sk, args, npass, llm_input,
                   pre, nresets>>

\* evaluator_llm_with_output.invoke raises (transport error, or output that
\* does not validate as EvaluatorOutput) before new_state is built
EvaluatorFail(s) ==
    /\ pc[s] = "evaluator"
    /\ pc' = [pc EXCEPT ![s] = "failed"]
    /\ UNCHANGED <<resources, pending, nrej, last_rejection, sidekick, next_uuid, memory, chatbot, run_sk, args, chan,
                   npass, llm_input, eval_result, pre, nmsg, nresets>>

\* ainvoke returns the final channels; run_superstep builds the new history
\* and process_message hands it, with its Sidekick, back to the interface
Return(s) ==
    /\ pc[s] = "END"
    /\ chatbot' = [chatbot EXCEPT ![s] =
                    superstep_result(args[s].message, chan[s], args[s].history)]
    /\ sidekick' = [sidekick EXCEPT ![s] = run_sk[s]]
    /\ pc' = [pc EXCEPT ![s] = "idle"]
    /\ UNCHANGED <<resources, pending, nrej, last_rejection, next_uuid, memory, run_sk, args, chan, npass, llm_input,
                   eval_result, pre, nmsg, nresets>>

\* reset(): a new Sidekick (new uuid, new MemorySaver) replaces the one in
\* gr.State and the Chatbot is emptied
Reset_keep_memory(s) ==
    /\ nresets[s] < MaxResets
    /\ sidekick' = [sidekick EXCEPT ![s] = next_uuid]
    /\ next_uuid' = next_uuid + 1
    /\ memory' = (next_uuid :>
                    (IF Persisted(memory, sidekick[s]) = None THEN <<>>
                     ELSE (thread_id(next_uuid) :> Load(memory, sidekick[s]))))
                  @@ memory
    /\ chatbot' = [chatbot EXCEPT ![s] = <<>>]
    /\ nresets' = [nresets EXCEPT ![s] = @ + 1]
    /\ browser' = (next_uuid :> "open") @@ browser
    /\ playwright' = (next_uuid :> "open") @@ playwright
    /\ UNCHANGED <<alive, pending, nrej, last_rejection, pc, run_sk, args, chan, npass, llm_input, eval_result, pre,
                   nmsg>>

Reset(s) ==
    /\ nresets[s] < MaxResets
    /\ sidekick' = [sidekick EXCEPT ![s] = next_uuid]
    /\ next_uuid' = next_uuid + 1
    /\ memory' = (next_uuid :> <<>>) @@ memory
    /\ chatbot' = [chatbot EXCEPT ![s] = <<>>]
    /\ nresets' = [nresets EXCEPT ![s] = @ + 1]
    /\ browser' = (next_uuid :> "open") @@ browser
    /\ playwright' = (next_uuid :> "open") @@ playwright
    /\ UNCHANGED <<alive, pending, nrej, last_rejection, pc, run_sk, args, chan, npass, llm_input, eval_result, pre,
                   nmsg>>

Next ==
    \E s \in Active :
        \/ Begin(s)
        \/ Worker(s)
        \/ WorkerFail(s)
        \/ Tools(s)
        \/ Evaluator(s)
        \/ EvaluatorFail(s)
        \/ Return(s)
        \/ Reset(s)

Spec == Init /\ [][Next]_vars

\* ------------------------------------------------------ session teardown
\* Sidekick.cleanup on the handles of one Sidekick. setup gave it both
\* handles, so `if self.browser` and `if self.playwright` are taken.
\* Running loop: browser.close() and playwright.stop() are two tasks, each
\* succeeds or fails by itself. No running loop: asyncio.run(browser.close())
\* raises when the close fails and playwright.stop() is never reached.
\* A handle is "open", "closed", or "failed" when its release was tried and
\* raised.
cleanup(loop_running, close_ok, stop_ok) ==
    [browser    |-> IF close_ok THEN "closed" ELSE "failed",
     playwright |-> IF loop_running \/ close_ok
                        THEN (IF stop_ok THEN "closed" ELSE "failed")
                        ELSE "open"]

\* gr.State(delete_callback=free_resources): the browser session ends, Gradio
\* deletes its state and calls free_resources on the Sidekick it holds then;
\* free_resources swallows what cleanup raises
free_resources(s) ==
    /\ alive[s]
    /\ pc[s] \in {"idle", "failed"}
    /\ \E loop_running \in BOOLEAN, close_ok \in BOOLEAN, stop_ok \in BOOLEAN :
        LET sk == sidekick[s]
            r  == cleanup(loop_running, close_ok, stop_ok)
        IN /\ browser' = [browser EXCEPT ![sk] = r.browser]
           /\ playwright' = [playwright EXCEPT ![sk] = r.playwright]
    /\ alive' = [alive EXCEPT ![s] = FALSE]
    /\ UNCHANGED <<pending, nrej, last_rejection, sidekick, next_uuid, memory, chatbot, pc, run_sk,
                   args, chan, npass, llm_input, eval_result, pre, nmsg, nresets>>

NextLife ==
    \E s \in Active :
        \/ alive[s] /\ Begin(s)
        \/ alive[s] /\ Worker(s)
        \/ alive[s] /\ WorkerFail(s)
        \/ alive[s] /\ Tools(s)
        \/ alive[s] /\ Evaluator(s)
        \/ alive[s] /\ EvaluatorFail(s)
        \/ alive[s] /\ Return(s)
        \/ alive[s] /\ Reset(s)
        \/ free_resources(s)

SpecLife == Init /\ [][NextLife]_vars

\* ------------------------------------------------- two browser sessions
\* both browser sessions act, their steps interleaved in any order
NextPair ==
    \E s \in Slots :
        \/ nmsg["a"] + nmsg["b"] < MaxPairMessages /\ Begin(s)
        \/ nmsg["a"] + nmsg["b"] < MaxPairMessages /\ Worker(s)
        \/ WorkerFail(s)
        \/ nmsg["a"] + nmsg["b"] < MaxPairMessages /\ Tools(s)
        \/ nmsg["a"] + nmsg["b"] < MaxPairMessages /\ Evaluator(s)
        \/ EvaluatorFail(s)
        \/ Return(s)
        \/ Reset(s)

SpecPair == Init /\ [][NextPair]_vars

\* ------------------------------------------------------ the event queue
\* message.submit, success_criteria.submit or go_button.click: the interface
\* sends a process_message event with the values it shows; events of one
\* function wait in one queue
Submit(s) ==
    /\ Len(pending[s]) < MaxPending
    /\ \E message \in UserMessages, success_criteria \in CriteriaInputs :
        pending' = [pending EXCEPT ![s] =
                      Append(@, [message |-> message,
                                 success_criteria |-> success_criteria,
                                 history |-> chatbot[s]])]
    /\ UNCHANGED <<resources, sidekick, next_uuid, memory, chatbot, pc, run_sk,
                   args, chan, npass, llm_input, eval_result, pre, nmsg,
                   nresets, nrej, last_rejection>>

\* the queue starts the oldest waiting event; the handlers are registered
\* without a concurrency limit of their own, so one process_message runs at
\* a time
Dequeue_concurrent(s) ==
    /\ pending[s] # <<>>
    /\ StartRun(s, Head(pending[s]).message, Head(pending[s]).success_criteria,
                Head(pending[s]).history)
    /\ pending' = [pending EXCEPT ![s] = Tail(@)]

Dequeue(s) ==
    /\ pending[s] # <<>>
    /\ pc[s] \in {"idle", "failed"}
    /\ StartRun(s, Head(pending[s]).message, Head(pending[s]).success_criteria,
                Head(pending[s]).history)
    /\ pending' = [pending EXCEPT ![s] = Tail(@)]

NextQueue ==
    \E s \in Active :
        \/ Submit(s)
        \/ Dequeue(s)
        \/ Worker(s)
        \/ WorkerFail(s)
        \/ Tools(s)
        \/ Evaluator(s)
        \/ EvaluatorFail(s)
        \/ Return(s)

SpecQueue == Init /\ [][NextQueue]_vars

\* ================================================================= claims
Running == {"worker", "tools", "evaluator", "END"}

Starts(s)  == pc[s] \in {"idle", "failed"} /\ pc'[s] = "worker"
Returns(s) == pc[s] = "END" /\ pc'[s] = "idle"
Fails(s)   == pc[s] # "failed" /\ pc'[s] = "failed"

SystemCount(messages) ==
    Cardinality({i \in 1..Len(messages) : Role(messages[i]) = "system"})

PersistedMessages(opt) == IF opt = None THEN <<>> ELSE opt[1].messages

\* the edges of build_graph, with START taken when an event begins
GraphEdges ==
    {<<"idle", "worker">>, <<"failed", "worker">>, <<"worker", "tools">>,
     <<"worker", "evaluator">>, <<"tools", "worker">>,
     <<"evaluator", "worker">>, <<"evaluator", "END">>}

\* C1: inside a run the nodes follow only Start->Worker, Worker->Tools,
\* Worker->Evaluator, Tools->Worker, Evaluator->Worker and Evaluator->End; End
\* is entered exactly from an evaluator pass whose result has
\* success_criteria_met or user_input_needed, and after End no node runs.
C1_GraphTransitions ==
    [][\A s \in Slots :
        /\ (pc'[s] \in Running /\ (pc'[s] # pc[s] \/ chan'[s] # chan[s]))
              => <<pc[s], pc'[s]>> \in GraphEdges
        /\ (pc[s] = "evaluator" /\ pc'[s] \in Running /\ chan'[s] # chan[s])
              => /\ eval_result'[s] # None
                 /\ pc'[s] = "END"
                      <=> (eval_result'[s][1].success_criteria_met
                           \/ eval_result'[s][1].user_input_needed)
        /\ pc[s] = "END" => (pc'[s] \in {"END", "idle"} /\ chan'[s] = chan[s])
      ]_vars

C1_Witness ==
    \E s \in Slots :
        /\ pc[s] = "END"
        /\ chan[s].user_input_needed
        /\ ~chan[s].success_criteria_met

\* C2: route_based_on_evaluation answers END exactly when one of the two flags
\* is set and worker otherwise, for all four flag combinations and whatever
\* the other fields of the state are.
C2_RouteBasedOnEvaluation ==
    \A s \in Slots : \A met \in BOOLEAN, needed \in BOOLEAN :
        LET st == [chan[s] EXCEPT !.success_criteria_met = met,
                                  !.user_input_needed = needed]
        IN route_based_on_evaluation(st)
              = (IF met \/ needed THEN "END" ELSE "worker")

C2_Witness ==
    \E s \in Slots :
        /\ pc[s] = "worker"
        /\ eval_result[s] # None
        /\ Len(chan[s].messages) >= 3
        /\ Last(chan[s].messages).content
              = EvaluatorPrefix \o eval_result[s][1].feedback
        /\ ~chan[s].success_criteria_met
        /\ ~chan[s].user_input_needed

\* C3: for every history (every non-empty prefix of a thread's messages)
\* worker_router answers tools exactly when the last message carries one or
\* more tool calls and evaluator otherwise, and its answer is the one it gives
\* for the last message alone.
C3_WorkerRouter ==
    \A s \in Slots : \A k \in 1..Len(chan[s].messages) :
        LET history == SubSeq(chan[s].messages, 1, k)
            m == history[k]
            carries == Role(m) = "assistant" /\ Len(m.tool_calls) >= 1
        IN /\ worker_router([chan[s] EXCEPT !.messages = history])
                = (IF carries THEN "tools" ELSE "evaluator")
           /\ worker_router([chan[s] EXCEPT !.messages = history])
                = worker_router([EmptyState EXCEPT !.messages = <<m>>])

C3_Witness ==
    \E s \in Slots :
        /\ pc[s] = "tools"
        /\ Len(Last(chan[s].messages).tool_calls) >= 1
        /\ Len(chan[s].messages) >= 4

\* C4 as stated: right after a worker step the state's messages hold exactly
\* one system message, and it is the first element.
C4_Original ==
    \A s \in Slots :
        pc[s] \in {"tools", "evaluator"}
            => /\ SystemCount(chan[s].messages) = 1
               /\ Role(chan[s].messages[1]) = "system"

\* C4 amended: right after a worker step the state's messages (in the run and
\* as persisted) hold no system message; the one system message of the pass is
\* the first element of the list handed to the LLM, followed by the state's
\* messages as they were.
C4_SystemMessageNotStored ==
    \A s \in Slots :
        pc[s] \in {"tools", "evaluator"}
            => /\ SystemCount(chan[s].messages) = 0
               /\ SystemCount(Load(memory, run_sk[s]).messages) = 0
               /\ SystemCount(llm_input[s]) = 1
               /\ Role(llm_input[s][1]) = "system"
               /\ Tail(llm_input[s])
                     = SubSeq(chan[s].messages, 1, Len(chan[s].messages) - 1)

C4_Witness ==
    \E s \in Slots :
        /\ pc[s] = "evaluator"
        /\ Len(args[s].history) >= 3
        /\ Len(chan[s].messages) >= 5

\* the index of the last assistant message before position n
LastAssistantBefore(messages, n) ==
    CHOOSE i \in 1..(n - 1) :
        /\ Role(messages[i]) = "assistant"
        /\ \A k \in (i + 1)..(n - 1) : Role(messages[k]) # "assistant"

\* C5 as stated: a run that reaches End returns the history it was given
\* extended by exactly two entries, the last assistant reply before the
\* terminal feedback message and that feedback message.
C5_Original ==
    [][\A s \in Slots :
        Returns(s) =>
            LET m == chan[s].messages
            IN chatbot'[s] = args[s].history
                \o <<[role |-> "assistant",
                      content |-> m[LastAssistantBefore(m, Len(m))].content],
                     [role |-> "assistant", content |-> Last(m).content]>>
      ]_vars

\* C5 amended: a run that reaches End returns the history it was given
\* extended by exactly three entries, in this order: the user's message, the
\* last assistant reply before the terminal feedback message, and that
\* feedback message; the entries it was given are unchanged.
C5_ThreeNewEntries ==
    [][\A s \in Slots :
        Returns(s) =>
            LET m == chan[s].messages
                h == args[s].history
            IN /\ Len(chatbot'[s]) = Len(h) + 3
               /\ SubSeq(chatbot'[s], 1, Len(h)) = h
               /\ chatbot'[s][Len(h) + 1]
                     = [role |-> "user", content |-> args[s].message]
               /\ chatbot'[s][Len(h) + 2]
                     = [role |-> "assistant",
                        content |-> m[LastAssistantBefore(m, Len(m))].content]
               /\ chatbot'[s][Len(h) + 3]
                     = [role |-> "assistant",
                        content |-> EvaluatorPrefix \o eval_result[s][1].feedback]
               /\ Last(m).content = EvaluatorPrefix \o eval_result[s][1].feedback
      ]_vars

C5_Witness ==
    \E s \in Slots :
        /\ pc[s] = "idle"
        /\ Len(args[s].history) >= 3
        /\ Len(chatbot[s]) = Len(args[s].history) + 3
        /\ chatbot[s][Len(chatbot[s]) - 2].role = "user"

\* C6: when an event starts a run both flags are false whatever was
\* persisted; inside a run they change only in an evaluator step.
C6_FlagsResetAndEvaluatorOnly ==
    [][\A s \in Slots :
        /\ Starts(s) => (~chan'[s].success_criteria_met
                         /\ ~chan'[s].user_input_needed)
        /\ (pc[s] \in {"worker", "tools"} /\ chan'[s] # chan[s])
              => /\ chan'[s].success_criteria_met = chan[s].success_criteria_met
                 /\ chan'[s].user_input_needed = chan[s].user_input_needed
        /\ (chan'[s].success_criteria_met # chan[s].success_criteria_met
            \/ chan'[s].user_input_needed # chan[s].user_input_needed)
              => (pc[s] = "evaluator" \/ Starts(s))
      ]_vars

C6_Witness ==
    \E s \in Slots :
        /\ pc[s] = "worker"
        /\ npass[s] = 0
        /\ pre[s] # None
        /\ pre[s][1].success_criteria_met
        /\ pre[s][1].user_input_needed
        /\ ~chan[s].success_criteria_met
        /\ ~chan[s].user_input_needed

FeedbackBlock == <<"Here is the feedback on why this was rejected:">>

\* C7 as stated: a new user turn keeps feedback_on_work, the run starts with
\* the value persisted for the session.
C7_Original ==
    [][\A s \in Slots :
        Starts(s) =>
            chan'[s].feedback_on_work
                = Load(memory, sidekick[s]).feedback_on_work
      ]_vars

\* C7 amended: a new user turn clears feedback_on_work: whatever value is
\* persisted for the session, the run starts with None and the prompt of its
\* first worker pass carries no feedback block.
C7_NewTurnClearsFeedback ==
    [][\A s \in Slots :
        /\ Starts(s) => chan'[s].feedback_on_work = None
        /\ (pc[s] = "worker" /\ npass[s] = 0 /\ npass'[s] = 1)
              => /\ chan[s].feedback_on_work = None
                 /\ ~Contains(llm_input'[s][1].content, FeedbackBlock)
      ]_vars

C7_Witness ==
    \E s \in Slots :
        /\ pc[s] \in {"tools", "evaluator"}
        /\ npass[s] = 1
        /\ pre[s] # None
        /\ pre[s][1].feedback_on_work # None
        /\ chan[s].feedback_on_work = None

\* C8: a session's messages only grow at the end: what is persisted for a
\* Sidekick's thread, and what a run on it holds, is always a prefix of its
\* later value.
C8_AppendOnly ==
    [][/\ \A sk \in DOMAIN memory :
            IsPrefix(PersistedMessages(Persisted(memory, sk)),
                     PersistedMessages(Persisted(memory', sk)))
       /\ \A s \in Slots :
            run_sk'[s] = run_sk[s]
                => IsPrefix(chan[s].messages, chan'[s].messages)
      ]_vars

C8_Witness ==
    \E s \in Slots :
        /\ pc[s] = "END"
        /\ Len(chan[s].messages) >= 6
        /\ Len(args[s].history) >= 3
        /\ Load(memory, run_sk[s]).messages = chan[s].messages

\* C9 as stated: when an LLM call fails, what is persisted for the session
\* equals what was persisted before the event began.
C9_Original ==
    \A s \in Slots :
        pc[s] = "failed" => Persisted(memory, run_sk[s]) = pre[s]

\* C9 amended: when an LLM call fails the failure reaches the caller (the
\* event ends without output) and what is persisted for the session is the
\* state after the last step that completed: the messages persisted before
\* the event, the event's user message, and whatever the completed nodes of
\* the run appended; the failing step persists nothing.
C9_FailureKeepsCompletedSteps ==
    [][\A s \in Slots :
        Fails(s) =>
            /\ pc[s] \in {"worker", "evaluator"}
            /\ memory' = memory
            /\ chatbot' = chatbot
            /\ Persisted(memory', run_sk[s]) = Some(chan[s])
            /\ IsPrefix(PersistedMessages(pre[s])
                            \o <<HumanMessage(args[s].message)>>,
                        PersistedMessages(Persisted(memory', run_sk[s])))
      ]_vars

C9_Witness ==
    \E s \in Slots :
        /\ pc[s] = "failed"
        /\ Len(Load(memory, run_sk[s]).messages)
              > Len(PersistedMessages(pre[s])) + 1

\* C10: an evaluator pass either applies all four updates together (one
\* feedback message appended, feedback_on_work and both flags taken from the
\* result) or fails and changes none of them.
C10_EvaluatorAllOrNothing ==
    [][\A s \in Slots :
        (pc[s] = "evaluator" /\ pc'[s] # "evaluator") =>
            \/ /\ pc'[s] = "failed"
               /\ chan'[s] = chan[s]
               /\ memory' = memory
            \/ /\ pc'[s] \in {"worker", "END"}
               /\ eval_result'[s] # None
               /\ LET r == eval_result'[s][1]
                  IN /\ chan'[s].messages
                          = Append(chan[s].messages,
                                   AIMessage(EvaluatorPrefix \o r.feedback, <<>>))
                     /\ chan'[s].feedback_on_work = Some(r.feedback)
                     /\ chan'[s].success_criteria_met = r.success_criteria_met
                     /\ chan'[s].user_input_needed = r.user_input_needed
                     /\ chan'[s].success_criteria = chan[s].success_criteria
               /\ Persisted(memory', run_sk[s]) = Some(chan'[s])
      ]_vars

C10_Witness ==
    \E s \in Slots :
        /\ pc[s] = "END"
        /\ eval_result[s] # None
        /\ chan[s].success_criteria_met
        /\ chan[s].user_input_needed
        /\ chan[s].feedback_on_work = Some(eval_result[s][1].feedback)
        /\ Last(chan[s].messages).content
              = EvaluatorPrefix \o eval_result[s][1].feedback

\* the messages a step appended to the channels of slot s
Appended(s) ==
    SubSeq(chan'[s].messages, Len(chan[s].messages) + 1, Len(chan'[s].messages))

\* C11: after a tools step every tool-result message it appended carries the
\* id of exactly one tool call of the worker message right before it, every
\* tool call of that message has exactly one result, and nothing else was
\* appended.
C11_ToolCorrelation ==
    [][\A s \in Slots :
        (pc[s] = "tools" /\ pc'[s] = "worker") =>
            LET calls == Last(chan[s].messages).tool_calls
                new == Appended(s)
            IN /\ IsPrefix(chan[s].messages, chan'[s].messages)
               /\ Len(new) = Len(calls)
               /\ \A i \in 1..Len(new) :
                    /\ Role(new[i]) = "tool"
                    /\ Cardinality({j \in 1..Len(calls) :
                                      calls[j].id = new[i].tool_call_id}) = 1
               /\ \A j \in 1..Len(calls) :
                    Cardinality({i \in 1..Len(new) :
                                    new[i].tool_call_id = calls[j].id}) = 1
      ]_vars

C11_Witness ==
    \E s \in Slots :
        LET m == chan[s].messages
        IN /\ pc[s] = "worker"
           /\ Len(m) >= 4
           /\ Role(m[Len(m)]) = "tool"
           /\ Role(m[Len(m) - 1]) = "tool"
           /\ Role(m[Len(m) - 2]) = "assistant"
           /\ Len(m[Len(m) - 2].tool_calls) = 2
           /\ m[Len(m)].tool_call_id # m[Len(m) - 1].tool_call_id

\* C12: a tool invocation that fails never aborts the run: the tools step
\* turns the failure into the tool-result message of that call, and control
\* goes back to the worker as after a successful call.
C12_ToolFailureIsAMessage ==
    [][\A s \in Slots :
        (pc[s] = "tools" /\ (pc'[s] # pc[s] \/ chan'[s] # chan[s])) =>
            /\ pc'[s] = "worker"
            /\ Len(Appended(s)) = Len(Last(chan[s].messages).tool_calls)
            /\ \A i \in 1..Len(Appended(s)) :
                /\ Role(Appended(s)[i]) = "tool"
                /\ Appended(s)[i].content \in ToolOutputs
            /\ Persisted(memory', run_sk[s]) = Some(chan'[s])
      ]_vars

C12_Witness ==
    \E s \in Slots :
        /\ pc[s] = "END"
        /\ \E i \in 1..Len(chan[s].messages) :
            /\ Role(chan[s].messages[i]) = "tool"
            /\ chan[s].messages[i].content = ToolFailure
            /\ i > Len(PersistedMessages(pre[s]))

\* C13: reset puts a session in place whose identifier differs from the one
\* it replaces (and from every identifier in use), with nothing persisted: no
\* messages, no feedback_on_work, and an empty visible history; as long as no
\* run has started in it nothing is persisted for it, and its first run starts
\* from the user's message alone.
C13_ResetFreshSession ==
    [][\A s \in Slots :
        /\ nresets'[s] # nresets[s] =>
            /\ sidekick'[s] # sidekick[s]
            /\ sidekick'[s] \notin DOMAIN memory
            /\ \A t \in Slots : sidekick'[s] # run_sk[t]
            /\ \A t \in Slots \ {s} : sidekick'[s] # sidekick[t]
            /\ Load(memory', sidekick'[s]).messages = <<>>
            /\ Load(memory', sidekick'[s]).feedback_on_work = None
            /\ chatbot'[s] = <<>>
        /\ sidekick'[s] # run_sk'[s] => Persisted(memory', sidekick'[s]) = None
        /\ (Starts(s) /\ sidekick[s] # run_sk[s]) =>
            /\ chan'[s].messages = <<HumanMessage(args'[s].message)>>
            /\ args'[s].history = <<>>
      ]_vars

C13_Witness ==
    \E s \in Slots :
        /\ pc[s] = "END"
        /\ nresets[s] >= 1
        /\ run_sk[s] # InitialSidekick[s]
        /\ sidekick[s] = run_sk[s]
        /\ Len(chan[s].messages) = 3
        /\ Len(Load(memory, InitialSidekick[s]).messages) >= 3

\* C14: the runs of one session never overlap: an event waiting in the queue
\* starts only when no run of the session is at a node or at End (the one
\* before it has returned from End, or has failed), it is the oldest waiting
\* event, and a run in flight is never restarted or replaced.
C14_RunsAreSerialized ==
    [][\A s \in Slots :
        /\ Len(pending'[s]) < Len(pending[s]) =>
            /\ pc[s] \in {"idle", "failed"}
            /\ pc'[s] = "worker"
            /\ args'[s] = Head(pending[s])
            /\ pending'[s] = Tail(pending[s])
        /\ pc[s] \in Running =>
            /\ run_sk'[s] = run_sk[s]
            /\ args'[s] = args[s]
            /\ npass'[s] >= npass[s]
            /\ IsPrefix(chan[s].messages, chan'[s].messages)
      ]_vars

C14_Witness ==
    \E s \in Slots :
        /\ pc[s] = "worker"
        /\ npass[s] = 0
        /\ Len(chan[s].messages) = 4
        /\ args[s].history = <<>>
        /\ Len(chatbot[s]) = 3
        /\ pending[s] # <<>>

\* a step taken by browser session s
StepOf(s) ==
    \/ pc'[s] # pc[s]
    \/ chan'[s] # chan[s]
    \/ chatbot'[s] # chatbot[s]
    \/ nresets'[s] # nresets[s]

\* C15: sessions do not interfere: whatever the interleaving, a step of one
\* session leaves the other session's state (messages, criteria, feedback,
\* flags), its position, its visible history and what is persisted for it
\* unchanged.
C15_SessionsDoNotInterfere ==
    [][\A s \in Slots, t \in Slots :
        (s # t /\ StepOf(s)) =>
            /\ chan'[t] = chan[t]
            /\ pc'[t] = pc[t]
            /\ chatbot'[t] = chatbot[t]
            /\ sidekick'[t] = sidekick[t]
            /\ run_sk'[t] = run_sk[t]
            /\ memory'[sidekick[t]] = memory[sidekick[t]]
            /\ memory'[run_sk[t]] = memory[run_sk[t]]
      ]_vars

C15_Witness ==
    /\ pc["a"] = "evaluator"
    /\ pc["b"] = "worker"
    /\ Len(chan["a"].messages) = 2
    /\ Len(chan["b"].messages) = 1
    /\ Load(memory, run_sk["a"]) = chan["a"]
    /\ Load(memory, run_sk["b"]) = chan["b"]
    /\ chan["a"].success_criteria # chan["b"].success_criteria

\* the Sidekicks whose session has ended: held by no live gr.State and by no
\* run in flight
Ended ==
    {sk \in DOMAIN browser :
        \A s \in Slots :
            \/ ~alive[s]
            \/ /\ sidekick[s] # sk
               /\ ~(pc[s] \in Running \cup {"END"} /\ run_sk[s] = sk)}

\* C16 as stated: when a session has ended (teardown, or replacement by
\* reset), its browser handle and its playwright handle have been released, or
\* their own release was tried and failed: neither is left open.
C16_Original ==
    \A sk \in Ended : browser[sk] # "open" /\ playwright[sk] # "open"

\* the worker passes of the run in flight that were followed by an evaluator
\* pass: the replies without tool calls that the run has appended (the
\* evaluator's own messages start with EvaluatorPrefix)
WorkerReplies(messages, before) ==
    Cardinality({i \in (Len(PersistedMessages(before)) + 1)..Len(messages) :
                    /\ messages[i].type = "ai"
                    /\ messages[i].tool_calls = <<>>
                    /\ ~IsPrefix(EvaluatorPrefix, messages[i].content)})

\* the worker pass that follows a rejection: the evaluator sent the run back
\* to the worker and its message is the last of the thread
AfterRejection(s) ==
    /\ pc[s] = "worker"
    /\ pc'[s] # "worker"
    /\ eval_result[s] # None
    /\ ~eval_result[s][1].success_criteria_met
    /\ ~eval_result[s][1].user_input_needed
    /\ Last(chan[s].messages).content
          = EvaluatorPrefix \o eval_result[s][1].feedback

\* C17: inside a run, the worker pass that follows a rejection (both flags
\* false) with feedback f builds a system prompt that contains f verbatim,
\* after the line announcing the feedback; and when the run reaches End after
\* k rejections, exactly k+1 worker passes were followed by an evaluator pass.
C17_FeedbackReachesNextWorker ==
    [][\A s \in Slots :
        /\ (AfterRejection(s) /\ npass'[s] = npass[s] + 1) =>
              Contains(llm_input'[s][1].content,
                       FeedbackBlock \o eval_result[s][1].feedback)
        /\ (pc[s] = "evaluator" /\ pc'[s] = "END") =>
              /\ WorkerReplies(chan'[s].messages, pre[s]) = nrej[s] + 1
              /\ nrej'[s] = nrej[s]
      ]_vars

\* two rejections with distinct feedback, then approval on the third attempt
C17_Witness ==
    \E s \in Slots :
        /\ pc[s] = "END"
        /\ chan[s].success_criteria_met
        /\ nrej[s] = 2
        /\ npass[s] = 3
        /\ Len(chan[s].messages) = 7
        /\ chan[s].messages[3].content # chan[s].messages[5].content
        /\ Contains(llm_input[s][1].content, FeedbackBlock \o <<"f2">>)

\* C18: a superstep runs on the thread of the Sidekick held in gr.State. When
\* that is the Sidekick of the session's previous superstep, the state it
\* loads is the state that superstep left persisted (same messages in the
\* same order, same criteria, feedback and flags), and it starts from that
\* state with the new input applied; a Sidekick that has not run yet starts
\* from empty channels. The identifier stays the same while a superstep runs,
\* and the one in gr.State changes only by a reset, or back to the identifier
\* of the superstep that returns.
C18_CheckpointRoundTrip ==
    [][\A s \in Slots :
        /\ Starts(s) =>
            LET input == superstep_input(args'[s].message,
                                         args'[s].success_criteria)
            IN /\ run_sk'[s] = sidekick[s]
               /\ pre'[s] = Persisted(memory, sidekick[s])
               /\ IF run_sk[s] = sidekick[s] /\ pre'[s] # None
                  THEN /\ pre'[s] = Some(chan[s])
                       /\ chan'[s] = ApplyWrites(chan[s], input)
                  ELSE /\ pre'[s] = None
                       /\ chan'[s] = ApplyWrites(EmptyState, input)
        /\ pc[s] \in Running => run_sk'[s] = run_sk[s]
        /\ sidekick'[s] # sidekick[s] =>
              \/ nresets'[s] = nresets[s] + 1
              \/ Returns(s) /\ sidekick'[s] = run_sk[s]
      ]_vars

\* the third superstep of a session has started on what the second one left
C18_Witness ==
    \E s \in Slots :
        /\ pc[s] = "worker"
        /\ npass[s] = 0
        /\ run_sk[s] = sidekick[s]
        /\ pre[s] # None
        /\ Len(pre[s][1].messages) = 6
        /\ pre[s][1].success_criteria_met
        /\ chan[s].messages
              = pre[s][1].messages \o <<HumanMessage(args[s].message)>>
        /\ Len(args[s].history) = 6

\* the thread of a state with a system message put at its head, as it would
\* be if an earlier prompt had been stored
WithStoredPrompt(state) ==
    [state EXCEPT !.messages = <<SystemMessage(<<"old prompt">>)>> \o @]

\* C20: in every worker pass the list handed to the LLM has exactly one
\* system message, it is the first element, and its content is the prompt
\* built in that pass: it holds the current success criteria, and the current
\* feedback after the feedback line exactly when feedback is set. The stored
\* thread has no system message, so the prompt is prepended and the rest of
\* the list is the thread; were a system message stored at the head, its
\* content would be replaced and the list would keep its length.
C20_OneFreshSystemMessage ==
    [][\A s \in Slots :
        (pc[s] = "worker" /\ npass'[s] = npass[s] + 1) =>
            LET state == chan[s]
                m == llm_input'[s]
                replaced == worker_llm_messages(WithStoredPrompt(state))
            IN /\ SystemCount(m) = 1
               /\ m[1] = SystemMessage(system_message(state))
               /\ Contains(m[1].content, state.success_criteria)
               /\ Contains(m[1].content, FeedbackBlock)
                     <=> (state.feedback_on_work # None
                            /\ state.feedback_on_work[1] # <<>>)
               /\ state.feedback_on_work # None =>
                     Contains(m[1].content,
                              FeedbackBlock \o state.feedback_on_work[1])
               /\ Len(m) = Len(state.messages) + 1
               /\ \A i \in 1..Len(state.messages) : m[i + 1] = state.messages[i]
               /\ Len(replaced) = Len(state.messages) + 1
               /\ SystemCount(replaced) = 1
               /\ replaced[1] = SystemMessage(system_message(state))
      ]_vars

\* a worker pass whose prompt carries the feedback of a rejection, and the
\* pass before it in the same run carried none
C20_Witness ==
    \E s \in Slots :
        /\ pc[s] = "evaluator"
        /\ npass[s] = 2
        /\ nrej[s] = 1
        /\ chan[s].feedback_on_work # None
        /\ Len(llm_input[s]) = Len(chan[s].messages)
        /\ Contains(llm_input[s][1].content,
                    FeedbackBlock \o chan[s].feedback_on_work[1])
        /\ chan[s].success_criteria = <<"c1">>

\* C21: a worker step changes the state only by appending one message, the
\* LLM's response, at the end of messages: success_criteria, feedback_on_work
\* and both flags keep their values, every earlier message that is not a
\* system message is unchanged, and what is persisted is that state.
C21_WorkerFrame ==
    [][\A s \in Slots :
        (pc[s] = "worker" /\ pc'[s] \in {"tools", "evaluator"}) =>
            /\ Len(chan'[s].messages) = Len(chan[s].messages) + 1
            /\ \A i \in 1..Len(chan[s].messages) :
                  chan[s].messages[i].type # "system"
                      => chan'[s].messages[i] = chan[s].messages[i]
            /\ Last(chan'[s].messages)
                  \in LLMResponses(Len(chan[s].messages) + 1)
            /\ chan'[s].success_criteria = chan[s].success_criteria
            /\ chan'[s].feedback_on_work = chan[s].feedback_on_work
            /\ chan'[s].success_criteria_met = chan[s].success_criteria_met
            /\ chan'[s].user_input_needed = chan[s].user_input_needed
            /\ Persisted(memory', run_sk[s]) = Some(chan'[s])
      ]_vars

\* a worker pass that came after a rejection and asked for tools: the
\* feedback it was given is still in the state
C21_Witness ==
    \E s \in Slots :
        /\ pc[s] = "tools"
        /\ nrej[s] = 1
        /\ npass[s] = 2
        /\ eval_result[s] # None
        /\ chan[s].feedback_on_work = Some(eval_result[s][1].feedback)
        /\ Len(Last(chan[s].messages).tool_calls) = 2

\* the evaluator passes of the run in flight: the messages it appended that
\* start with EvaluatorPrefix
EvaluatorPasses(messages, before) ==
    Cardinality({i \in (Len(PersistedMessages(before)) + 1)..Len(messages) :
                    /\ messages[i].type = "ai"
                    /\ IsPrefix(EvaluatorPrefix, messages[i].content)})

\* C22 as stated: in every state feedback_on_work, in the run and as
\* persisted, is unset or is the feedback of the most recent evaluator pass
\* of the session that rejected the work.
C22_Original ==
    \A s \in Slots :
        /\ chan[s].feedback_on_work # None =>
              chan[s].feedback_on_work = last_rejection[s]
        /\ Load(memory, run_sk[s]).feedback_on_work # None =>
              Load(memory, run_sk[s]).feedback_on_work = last_rejection[s]

\* C22 amended: feedback_on_work is unset from the start of a superstep until
\* its first evaluator pass, and from then on it is the feedback of the most
\* recent evaluator pass whatever its verdict: a pass that ends the loop
\* writes its feedback too, and that value is what stays persisted after End.
C22_FeedbackOfLastEvaluatorPass ==
    \A s \in Slots :
        /\ chan[s].feedback_on_work = None
              <=> EvaluatorPasses(chan[s].messages, pre[s]) = 0
        /\ chan[s].feedback_on_work # None =>
              /\ eval_result[s] # None
              /\ chan[s].feedback_on_work = Some(eval_result[s][1].feedback)
        /\ pc[s] = "END" =>
              /\ eval_result[s][1].success_criteria_met
                    \/ eval_result[s][1].user_input_needed
              /\ Last(chan[s].messages).content
                    = EvaluatorPrefix \o chan[s].feedback_on_work[1]
              /\ Load(memory, run_sk[s]).feedback_on_work
                    = Some(eval_result[s][1].feedback)

\* a rejection with one feedback text, then an approval with another: the
\* state at End carries the approval's text
C22_Witness ==
    \E s \in Slots :
        /\ pc[s] = "END"
        /\ nrej[s] = 1
        /\ last_rejection[s] = Some(<<"f1">>)
        /\ chan[s].success_criteria_met
        /\ ~chan[s].user_input_needed
        /\ chan[s].feedback_on_work = Some(<<"f2">>)

\* the last two messages of a thread are a reply of the worker without tool
\* calls, appended after position `from`, followed by an evaluator message
EndsWithReplyAndFeedback(messages, from) ==
    LET n == Len(messages)
    IN /\ n - 1 > from
       /\ messages[n].type = "ai"
       /\ messages[n].tool_calls = <<>>
       /\ IsPrefix(EvaluatorPrefix, messages[n].content)
       /\ messages[n - 1].type = "ai"
       /\ messages[n - 1].tool_calls = <<>>
       /\ ~IsPrefix(EvaluatorPrefix, messages[n - 1].content)

\* C23: when a run reaches End, the last message of the thread is the
\* feedback message of the evaluator pass that ended it, and the one before
\* is the worker's reply of the same run, without tool calls, which is the
\* text that pass assessed; they stay the last two until run_superstep reads
\* them, so positions -2 and -1 exist and hold neither a user message nor a
\* tool result.
C23_LastTwoAtEnd ==
    [][\A s \in Slots :
        /\ (pc[s] = "evaluator" /\ pc'[s] = "END") =>
            LET m == chan'[s].messages
                n == Len(m)
            IN /\ EndsWithReplyAndFeedback(m, Len(PersistedMessages(pre[s])) + 1)
               /\ m[n].content = EvaluatorPrefix \o eval_result'[s][1].feedback
               /\ m[n - 1] = Last(chan[s].messages)
               /\ m[n - 1].content = last_response(chan[s])
               /\ npass[s] >= 1
        /\ pc[s] = "END" =>
            /\ EndsWithReplyAndFeedback(chan[s].messages,
                                        Len(PersistedMessages(pre[s])) + 1)
            /\ Load(memory, run_sk[s]).messages = chan[s].messages
        /\ Returns(s) =>
            LET m == chan[s].messages
                n == Len(m)
                h == chatbot'[s]
            IN /\ h[Len(h) - 1].content = m[n - 1].content
               /\ h[Len(h)].content = m[n].content
      ]_vars

\* a run that used a tool, was sent back once and then ended asking for the
\* user's input
C23_Witness ==
    \E s \in Slots :
        /\ pc[s] = "END"
        /\ nrej[s] = 1
        /\ chan[s].user_input_needed
        /\ ~chan[s].success_criteria_met
        /\ \E i \in 1..Len(chan[s].messages) : chan[s].messages[i].type = "tool"
        /\ EndsWithReplyAndFeedback(chan[s].messages, 1)

====
